---- MODULE Spec2Model ----
(***************************************************************************)
(* Model of src/GetIP/main.cpp: GetNetworkInfo (the interface enumerator), *)
(* CheckInternetConnection (the reachability probe, run on a detached      *)
(* thread) and main (the report coordinator).                              *)
(*                                                                         *)
(* Every statement that touches the OS, a shared variable or the console   *)
(* is one action.  Results of OS and libc calls are chosen by the          *)
(* environment at the call.                                                *)
(***************************************************************************)
EXTENDS Integers, Sequences, FiniteSets, TLC

\* Longest OS interface list getifaddrs() hands out in the model.
MaxEntries == 3

-----------------------------------------------------------------------------
(* The OS interface list: one entry per (interface, address) binding, as   *)
(* struct ifaddrs has it: ifa_name, ifa_addr (may be null), ifa_flags      *)
(* (only IFF_LOOPBACK matters), ifa_addr->sa_family, and sin_addr.         *)

NoAddr == <<>>

Entry(n, a, l, f, s) ==
    [ifa_name |-> n, ifa_addr |-> a, loopback |-> l, sa_family |-> f, sin_addr |-> s]

EntryKinds ==
    { Entry("lo",    TRUE,  TRUE,  "AF_INET",   <<127, 0, 0, 1>>),
      Entry("lo",    TRUE,  TRUE,  "AF_PACKET", NoAddr),
      Entry("eth0",  TRUE,  FALSE, "AF_PACKET", NoAddr),
      Entry("eth0",  TRUE,  FALSE, "AF_INET",   <<192, 168, 1, 10>>),
      Entry("eth0",  TRUE,  FALSE, "AF_INET",   <<10, 0, 0, 2>>),
      Entry("wlan0", TRUE,  FALSE, "AF_INET",   <<192, 168, 1, 11>>),
      Entry("tun0",  FALSE, FALSE, "AF_UNSPEC", NoAddr) }

\* getifaddrs() lists each (interface, address) binding once.
OsLists ==
    { l \in UNION { [1..n -> EntryKinds] : n \in 0..MaxEntries } :
        \A i, j \in DOMAIN l : i # j => l[i] # l[j] }

\* The link-layer address the kernel holds for a device (SIOCGIFHWADDR).
KernelHwAddr(name) ==
    CASE name = "eth0"  -> <<0, 26, 43, 60, 77, 94>>
      [] name = "wlan0" -> <<172, 222, 72, 0, 17, 34>>
      [] OTHER          -> <<0, 0, 0, 0, 0, 0>>

-----------------------------------------------------------------------------
(* Formatting *)

\* inet_ntop(AF_INET, ...): dotted decimal.
inet_ntop(a) ==
    ToString(a[1]) \o "." \o ToString(a[2]) \o "." \o ToString(a[3]) \o "." \o ToString(a[4])

HexDigits == <<"0","1","2","3","4","5","6","7","8","9","a","b","c","d","e","f">>

\* "%02x" of one byte.
Hex02(b) == HexDigits[(b \div 16) + 1] \o HexDigits[(b % 16) + 1]

\* snprintf(macBuffer, 18, "%02x:%02x:%02x:%02x:%02x:%02x", mac[0..5]).
FormatMac(m) ==
    Hex02(m[1]) \o ":" \o Hex02(m[2]) \o ":" \o Hex02(m[3]) \o ":" \o
    Hex02(m[4]) \o ":" \o Hex02(m[5]) \o ":" \o Hex02(m[6])

-----------------------------------------------------------------------------
VARIABLES
    m_pc,        \* main: position
    en_pc,       \* GetNetworkInfo: position
    ifaddr,      \* GetNetworkInfo: the list getifaddrs() returned
    ifa,         \* GetNetworkInfo: cursor into ifaddr (Len+1 = nullptr)
    iface,       \* GetNetworkInfo: the record under construction
    interfaces,  \* the vector of records (GetNetworkInfo's result, main's copy)
    listState,   \* "none" | "failed" | "held" | "freed": the getifaddrs list
    listFrees,   \* number of freeifaddrs() calls
    dgramOpen,   \* number of open SOCK_DGRAM sockets of GetNetworkInfo
    lookup,      \* history: per list entry, outcome of its hardware lookup
    origin,      \* history: per record of interfaces, the entry it was built from
    hasInternet, \* main's local bool, written by the probe thread
    pr_pc,       \* probe thread: position
    pr_sock,     \* probe: "none" | "open" | "closed": the SOCK_STREAM socket
    pr_closes,   \* probe: number of close() calls on its socket
    pr_nonblock, \* probe: O_NONBLOCK set on the socket
    pr_connect,  \* probe: "none" | "ok" | "inprogress" | "error": what connect() said
    pr_select,   \* probe: return value of select (ret)
    pr_error,    \* probe: SO_ERROR value read (error)
    pr_result,   \* probe: value returned by CheckInternetConnection
    pr_cause,    \* history: which exit path the probe took
    it,          \* main: position of the printing loop in interfaces
    line,        \* the reachability word main printed ("" before)
    status,      \* main's return value: <<>> until it returns, then <<value>>
    out,         \* std::cout, as a sequence of printed items
    err,         \* std::cerr, as a sequence of messages
    lateStore,   \* history: the probe's store came after main had returned
    prev         \* history: <<>> or <<r>>, r the environment and the result of
                 \* an earlier call of GetNetworkInfo

en_vars == <<en_pc, ifaddr, ifa, iface, interfaces, listState, listFrees,
             dgramOpen, lookup, origin>>
pr_vars == <<pr_pc, pr_sock, pr_closes, pr_nonblock, pr_connect, pr_select,
             pr_error, pr_result, pr_cause>>
m_vars == <<m_pc, it, line, status, out>>
h_vars == <<lateStore, prev>>
vars == <<m_vars, en_vars, hasInternet, pr_vars, err, h_vars>>

NoIface == [name |-> "", ip |-> "", mac |-> "", has_internet |-> FALSE]

Init ==
    /\ m_pc = "enumerate"
    /\ en_pc = "notcalled"
    /\ ifaddr = <<>>
    /\ ifa = 0
    /\ iface = NoIface
    /\ interfaces = <<>>
    /\ listState = "none"
    /\ listFrees = 0
    /\ dgramOpen = 0
    /\ lookup = <<>>
    /\ origin = <<>>
    /\ hasInternet = FALSE
    /\ pr_pc = "notstarted"
    /\ pr_sock = "none"
    /\ pr_closes = 0
    /\ pr_nonblock = FALSE
    /\ pr_connect = "none"
    /\ pr_select = 0
    /\ pr_error = 0
    /\ pr_result = FALSE
    /\ pr_cause = "none"
    /\ it = 0
    /\ line = ""
    /\ status = <<>>
    /\ out = <<>>
    /\ err = <<>>
    /\ lateStore = FALSE
    /\ prev = <<>>

-----------------------------------------------------------------------------
(* GetNetworkInfo, lines 30-83 *)

(* The environment of a call.  A first call meets any environment; a call  *)
(* that follows another one on an unchanged network configuration meets    *)
(* the list and the lookup outcomes the earlier call met.                  *)
MayFailQuery == IF prev = <<>> THEN TRUE ELSE prev[1].failed
EnvLists == IF prev = <<>> THEN OsLists
            ELSE IF prev[1].failed THEN {} ELSE {prev[1].list}
MayLookup(outcomes) == IF prev = <<>> THEN TRUE ELSE prev[1].lookup[ifa] \in outcomes

\* Variant of E_Call: the vector outlives the call (a static local).
E_Call_Static ==
    /\ m_pc = "enumerate" /\ en_pc = "notcalled"
    /\ en_pc' = "getifaddrs"
    /\ interfaces' = interfaces
    /\ UNCHANGED <<m_pc, ifaddr, ifa, iface, listState, listFrees, dgramOpen,
                   lookup, origin, hasInternet, pr_vars, it, line, status, out, err>>
    /\ UNCHANGED h_vars

\* line 139: main calls GetNetworkInfo(); line 31: the empty vector.
E_Call ==
    /\ m_pc = "enumerate" /\ en_pc = "notcalled"
    /\ en_pc' = "getifaddrs"
    /\ interfaces' = <<>>
    /\ UNCHANGED <<m_pc, ifaddr, ifa, iface, listState, listFrees, dgramOpen,
                   lookup, origin, hasInternet, pr_vars, it, line, status, out, err>>
    /\ UNCHANGED h_vars

\* Variant of E_GetIfAddrs: a failed query ends the process.
E_GetIfAddrs_Fatal ==
    /\ en_pc = "getifaddrs"
    /\ \/ /\ MayFailQuery
          /\ listState' = "failed"
          /\ err' = Append(err, "Error: getifaddrs() failed")
          /\ en_pc' = "exited"
          /\ m_pc' = "exited"
          /\ UNCHANGED <<ifaddr, ifa, lookup>>
       \/ \E l \in EnvLists :
          /\ ifaddr' = l
          /\ ifa' = 1
          /\ lookup' = [i \in 1..Len(l) |-> "none"]
          /\ listState' = "held"
          /\ en_pc' = "loop"
          /\ UNCHANGED <<m_pc, err>>
    /\ UNCHANGED <<iface, interfaces, listFrees, dgramOpen, origin,
                   hasInternet, pr_vars, it, line, status, out>>
    /\ UNCHANGED h_vars

\* lines 35-38: getifaddrs(); on -1 report and return the empty vector.
E_GetIfAddrs ==
    /\ en_pc = "getifaddrs"
    /\ \/ /\ MayFailQuery
          /\ listState' = "failed"
          /\ err' = Append(err, "Error: getifaddrs() failed")
          /\ en_pc' = "ret"
          /\ UNCHANGED <<ifaddr, ifa, lookup>>
       \/ \E l \in EnvLists :
          /\ ifaddr' = l
          /\ ifa' = 1
          /\ lookup' = [i \in 1..Len(l) |-> "none"]
          /\ listState' = "held"
          /\ en_pc' = "loop"
          /\ err' = err
    /\ UNCHANGED <<m_pc, iface, interfaces, listFrees, dgramOpen, origin,
                   hasInternet, pr_vars, it, line, status, out>>
    /\ UNCHANGED h_vars

\* Variant of Skipped: the IFF_LOOPBACK test is left out.
Skipped_NoLoopback(e) == ~e.ifa_addr

\* line 43: the entries the loop skips.
Skipped(e) == ~e.ifa_addr \/ e.loopback

\* lines 41-46: loop test, the skip, and the fresh record with its name.
\* NetworkInterface iface; leaves has_internet uninitialized.
E_Loop ==
    /\ en_pc = "loop"
    /\ IF ifa > Len(ifaddr)
       THEN /\ en_pc' = "free"
            /\ UNCHANGED <<ifa, iface>>
       ELSE IF Skipped(ifaddr[ifa])
       THEN /\ ifa' = ifa + 1
            /\ UNCHANGED <<en_pc, iface>>
       ELSE /\ \E g \in BOOLEAN :
                 iface' = [name |-> ifaddr[ifa].ifa_name, ip |-> "", mac |-> "",
                           has_internet |-> g]
            /\ en_pc' = "ipv4"
            /\ ifa' = ifa
    /\ UNCHANGED <<m_pc, ifaddr, interfaces, listState, listFrees, dgramOpen,
                   lookup, origin, hasInternet, pr_vars, it, line, status, out, err>>
    /\ UNCHANGED h_vars

\* lines 49-55: the IPv4 address in presentation form.
E_Ipv4 ==
    /\ en_pc = "ipv4"
    /\ iface' = IF ifaddr[ifa].sa_family = "AF_INET"
                THEN [iface EXCEPT !.ip = inet_ntop(ifaddr[ifa].sin_addr)]
                ELSE iface
    /\ en_pc' = "socket"
    /\ UNCHANGED <<m_pc, ifaddr, ifa, interfaces, listState, listFrees, dgramOpen,
                   lookup, origin, hasInternet, pr_vars, it, line, status, out, err>>
    /\ UNCHANGED h_vars

\* Variant of E_Socket: a failed socket() leaves the loop.
E_Socket_Abort ==
    /\ en_pc = "socket"
    /\ \/ /\ MayLookup({"ok", "hwfail"})
          /\ dgramOpen' = dgramOpen + 1
          /\ en_pc' = "ioctl"
          /\ lookup' = lookup
       \/ /\ MayLookup({"sockfail"})
          /\ lookup' = [lookup EXCEPT ![ifa] = "sockfail"]
          /\ en_pc' = "free"
          /\ dgramOpen' = dgramOpen
    /\ UNCHANGED <<m_pc, ifaddr, ifa, iface, interfaces, listState, listFrees,
                   origin, hasInternet, pr_vars, it, line, status, out, err>>
    /\ UNCHANGED h_vars

\* lines 58-59: socket(AF_INET, SOCK_DGRAM, 0); on failure the lookup is skipped.
E_Socket ==
    /\ en_pc = "socket"
    /\ \/ /\ MayLookup({"ok", "hwfail"})
          /\ dgramOpen' = dgramOpen + 1
          /\ en_pc' = "ioctl"
          /\ lookup' = lookup
       \/ /\ MayLookup({"sockfail"})
          /\ lookup' = [lookup EXCEPT ![ifa] = "sockfail"]
          /\ en_pc' = "filter"
          /\ dgramOpen' = dgramOpen
    /\ UNCHANGED <<m_pc, ifaddr, ifa, iface, interfaces, listState, listFrees,
                   origin, hasInternet, pr_vars, it, line, status, out, err>>
    /\ UNCHANGED h_vars

\* Variant of E_Ioctl: close(sockfd) is reached only when the query succeeds.
E_Ioctl_Leak ==
    /\ en_pc = "ioctl"
    /\ \/ /\ MayLookup({"ok"})
          /\ iface' = [iface EXCEPT !.mac = FormatMac(KernelHwAddr(iface.name))]
          /\ lookup' = [lookup EXCEPT ![ifa] = "ok"]
          /\ en_pc' = "close"
       \/ /\ MayLookup({"hwfail"})
          /\ lookup' = [lookup EXCEPT ![ifa] = "hwfail"]
          /\ iface' = iface
          /\ en_pc' = "filter"
    /\ UNCHANGED <<m_pc, ifaddr, ifa, interfaces, listState, listFrees, dgramOpen,
                   origin, hasInternet, pr_vars, it, line, status, out, err>>
    /\ UNCHANGED h_vars

\* lines 60-71: ioctl(SIOCGIFHWADDR) by name; on success the formatted MAC.
E_Ioctl ==
    /\ en_pc = "ioctl"
    /\ \/ /\ MayLookup({"ok"})
          /\ iface' = [iface EXCEPT !.mac = FormatMac(KernelHwAddr(iface.name))]
          /\ lookup' = [lookup EXCEPT ![ifa] = "ok"]
       \/ /\ MayLookup({"hwfail"})
          /\ lookup' = [lookup EXCEPT ![ifa] = "hwfail"]
          /\ iface' = iface
    /\ en_pc' = "close"
    /\ UNCHANGED <<m_pc, ifaddr, ifa, interfaces, listState, listFrees, dgramOpen,
                   origin, hasInternet, pr_vars, it, line, status, out, err>>
    /\ UNCHANGED h_vars

\* line 72: close(sockfd).
E_Close ==
    /\ en_pc = "close"
    /\ dgramOpen' = dgramOpen - 1
    /\ en_pc' = "filter"
    /\ UNCHANGED <<m_pc, ifaddr, ifa, iface, interfaces, listState, listFrees,
                   lookup, origin, hasInternet, pr_vars, it, line, status, out, err>>
    /\ UNCHANGED h_vars

\* line 76: the completeness filter.
Complete(r) == r.ip # "" /\ r.mac # ""

\* Variant of E_Filter: a name already in the vector is not appended again.
E_Filter_Dedup ==
    /\ en_pc = "filter"
    /\ IF Complete(iface) /\ \A i \in DOMAIN interfaces : interfaces[i].name # iface.name
       THEN /\ interfaces' = Append(interfaces, iface)
            /\ origin' = Append(origin, ifa)
       ELSE UNCHANGED <<interfaces, origin>>
    /\ ifa' = ifa + 1
    /\ en_pc' = "loop"
    /\ UNCHANGED <<m_pc, ifaddr, iface, listState, listFrees, dgramOpen,
                   lookup, hasInternet, pr_vars, it, line, status, out, err>>
    /\ UNCHANGED h_vars

\* lines 76-79 and the loop increment of line 41.
E_Filter ==
    /\ en_pc = "filter"
    /\ IF Complete(iface)
       THEN /\ interfaces' = Append(interfaces, iface)
            /\ origin' = Append(origin, ifa)
       ELSE UNCHANGED <<interfaces, origin>>
    /\ ifa' = ifa + 1
    /\ en_pc' = "loop"
    /\ UNCHANGED <<m_pc, ifaddr, iface, listState, listFrees, dgramOpen,
                   lookup, hasInternet, pr_vars, it, line, status, out, err>>
    /\ UNCHANGED h_vars

\* line 81: freeifaddrs(ifaddr).
E_Free ==
    /\ en_pc = "free"
    /\ listState' = "freed"
    /\ listFrees' = listFrees + 1
    /\ en_pc' = "ret"
    /\ UNCHANGED <<m_pc, ifaddr, ifa, iface, interfaces, dgramOpen,
                   lookup, origin, hasInternet, pr_vars, it, line, status, out, err>>
    /\ UNCHANGED h_vars

\* lines 37, 82: return interfaces; the frame's locals are gone, main goes on.
E_Return ==
    /\ en_pc = "ret"
    /\ en_pc' = "returned"
    /\ m_pc' = "thread"
    /\ ifaddr' = <<>>
    /\ ifa' = 0
    /\ iface' = NoIface
    /\ lookup' = <<>>
    /\ origin' = <<>>
    /\ UNCHANGED <<interfaces, listState, listFrees, dgramOpen,
                   hasInternet, pr_vars, it, line, status, out, err>>
    /\ UNCHANGED h_vars

\* The fields of a record the report shows (name, IPv4, MAC).  has_internet is
\* never assigned or read by the program.
Shown(seq) ==
    [i \in DOMAIN seq |-> [name |-> seq[i].name, ip |-> seq[i].ip, mac |-> seq[i].mac]]

\* A caller that calls GetNetworkInfo() again right after it returned, on an
\* unchanged network configuration: the call returns as in E_Return, and what
\* it met and the records it returned (as shown) are kept for the comparison.
E_Again ==
    /\ en_pc = "ret" /\ prev = <<>>
    /\ prev' = <<[failed |-> listState = "failed", list |-> ifaddr,
                  lookup |-> lookup, result |-> Shown(interfaces)]>>
    /\ en_pc' = "notcalled"
    /\ ifaddr' = <<>>
    /\ ifa' = 0
    /\ iface' = NoIface
    /\ lookup' = <<>>
    /\ origin' = <<>>
    /\ listState' = "none"
    /\ listFrees' = 0
    /\ UNCHANGED <<m_vars, interfaces, dgramOpen, hasInternet, pr_vars, err, lateStore>>

Enumerate ==
    \/ E_Call \/ E_GetIfAddrs \/ E_Loop \/ E_Ipv4 \/ E_Socket \/ E_Ioctl
    \/ E_Close \/ E_Filter \/ E_Free \/ E_Return

-----------------------------------------------------------------------------
(* CheckInternetConnection, lines 90-135, run by the thread of lines 143-145. *)
(* The thread runs as long as the process exists.                             *)

Running == m_pc # "exited"

\* SO_ERROR values the environment may report: none, or ECONNREFUSED (111).
SoErrors == {0, 111}

\* lines 91-95: socket(AF_INET, SOCK_STREAM, 0); on failure log, return false.
P_Socket ==
    /\ Running /\ pr_pc = "socket"
    /\ \/ /\ pr_sock' = "open"
          /\ pr_pc' = "pton"
          /\ UNCHANGED <<pr_result, pr_cause, err>>
       \/ /\ err' = Append(err, "Error: socket creation failed")
          /\ pr_result' = FALSE
          /\ pr_cause' = "socket"
          /\ pr_pc' = "store"
          /\ pr_sock' = pr_sock
    /\ UNCHANGED <<m_vars, en_vars, hasInternet, pr_closes, pr_nonblock,
                   pr_connect, pr_select, pr_error>>
    /\ UNCHANGED h_vars

\* Variant of P_Pton: the failure path returns true.
P_Pton_True ==
    /\ Running /\ pr_pc = "pton"
    /\ \/ /\ pr_pc' = "fcntl"
          /\ UNCHANGED <<pr_sock, pr_closes, pr_result, pr_cause, err>>
       \/ /\ err' = Append(err, "Error: invalid address")
          /\ pr_sock' = "closed"
          /\ pr_closes' = pr_closes + 1
          /\ pr_result' = TRUE
          /\ pr_cause' = "addr"
          /\ pr_pc' = "store"
    /\ UNCHANGED <<m_vars, en_vars, hasInternet, pr_nonblock, pr_connect,
                   pr_select, pr_error>>
    /\ UNCHANGED h_vars

\* lines 97-107: the target address; inet_pton <= 0: log, close, return false.
P_Pton ==
    /\ Running /\ pr_pc = "pton"
    /\ \/ /\ pr_pc' = "fcntl"
          /\ UNCHANGED <<pr_sock, pr_closes, pr_result, pr_cause, err>>
       \/ /\ err' = Append(err, "Error: invalid address")
          /\ pr_sock' = "closed"
          /\ pr_closes' = pr_closes + 1
          /\ pr_result' = FALSE
          /\ pr_cause' = "addr"
          /\ pr_pc' = "store"
    /\ UNCHANGED <<m_vars, en_vars, hasInternet, pr_nonblock, pr_connect,
                   pr_select, pr_error>>
    /\ UNCHANGED h_vars

\* Variant of P_Fcntl: the socket is left in blocking mode.
P_Fcntl_Missing ==
    /\ Running /\ pr_pc = "fcntl"
    /\ pr_nonblock' = pr_nonblock
    /\ pr_pc' = "connect"
    /\ UNCHANGED <<m_vars, en_vars, hasInternet, pr_sock, pr_closes, pr_connect,
                   pr_select, pr_error, pr_result, pr_cause, err>>
    /\ UNCHANGED h_vars

\* line 110: fcntl(F_SETFL, flags | O_NONBLOCK).  The descriptor is the one
\* socket() just returned and no other thread closes it, so neither call has
\* a failure to report.
P_Fcntl ==
    /\ Running /\ pr_pc = "fcntl"
    /\ pr_nonblock' = TRUE
    /\ pr_pc' = "connect"
    /\ UNCHANGED <<m_vars, en_vars, hasInternet, pr_sock, pr_closes, pr_connect,
                   pr_select, pr_error, pr_result, pr_cause, err>>
    /\ UNCHANGED h_vars

\* Variant of P_Connect: the failure path returns without close(sockfd).
P_Connect_Leak ==
    /\ Running /\ pr_pc = "connect"
    /\ \/ /\ pr_connect' \in {"ok", "inprogress"}
          /\ pr_pc' = "select"
          /\ UNCHANGED <<pr_result, pr_cause>>
       \/ /\ pr_connect' = "error"
          /\ pr_result' = FALSE
          /\ pr_cause' = "connect"
          /\ pr_pc' = "store"
    /\ UNCHANGED <<m_vars, en_vars, hasInternet, pr_sock, pr_closes, pr_nonblock,
                   pr_select, pr_error, err>>
    /\ UNCHANGED h_vars

\* lines 113-118: connect(); only a failure other than EINPROGRESS returns.
P_Connect ==
    /\ Running /\ pr_pc = "connect"
    /\ \/ /\ pr_connect' \in {"ok", "inprogress"}
          /\ pr_pc' = "select"
          /\ UNCHANGED <<pr_sock, pr_closes, pr_result, pr_cause>>
       \/ /\ pr_connect' = "error"
          /\ pr_sock' = "closed"
          /\ pr_closes' = pr_closes + 1
          /\ pr_result' = FALSE
          /\ pr_cause' = "connect"
          /\ pr_pc' = "store"
    /\ UNCHANGED <<m_vars, en_vars, hasInternet, pr_nonblock, pr_select,
                   pr_error, err>>
    /\ UNCHANGED h_vars

\* lines 121-126: select() for writability, bounded by the timeout:
\* 1 = writable, 0 = timed out, -1 = error.
P_Select ==
    /\ Running /\ pr_pc = "select"
    /\ pr_select' \in {1, 0, -1}
    /\ pr_pc' = "getsockopt"
    /\ UNCHANGED <<m_vars, en_vars, hasInternet, pr_sock, pr_closes, pr_nonblock,
                   pr_connect, pr_error, pr_result, pr_cause, err>>
    /\ UNCHANGED h_vars

\* lines 129-131: getsockopt(SO_ERROR).
P_Getsockopt ==
    /\ Running /\ pr_pc = "getsockopt"
    /\ pr_error' \in SoErrors
    /\ pr_pc' = "close"
    /\ UNCHANGED <<m_vars, en_vars, hasInternet, pr_sock, pr_closes, pr_nonblock,
                   pr_connect, pr_select, pr_result, pr_cause, err>>
    /\ UNCHANGED h_vars

\* line 133: close(sockfd).
P_Close ==
    /\ Running /\ pr_pc = "close"
    /\ pr_sock' = "closed"
    /\ pr_closes' = pr_closes + 1
    /\ pr_pc' = "return"
    /\ UNCHANGED <<m_vars, en_vars, hasInternet, pr_nonblock, pr_connect,
                   pr_select, pr_error, pr_result, pr_cause, err>>
    /\ UNCHANGED h_vars

\* Variant of ProbeValue: the pending error is not looked at.
ProbeValue_IgnoreError(ret, error) == ret > 0

\* line 134: the returned value.
ProbeValue(ret, error) == ret > 0 /\ error = 0

\* Which of the outcomes of lines 126-131 the probe ended on.
WaitCause(ret, error) ==
    CASE ret = 0   -> "timeout"
      [] ret < 0   -> "waiterr"
      [] error # 0 -> "pending"
      [] OTHER     -> "success"

\* line 134: return ret > 0 && error == 0.
P_Return ==
    /\ Running /\ pr_pc = "return"
    /\ pr_result' = ProbeValue(pr_select, pr_error)
    /\ pr_cause' = WaitCause(pr_select, pr_error)
    /\ pr_pc' = "store"
    /\ UNCHANGED <<m_vars, en_vars, hasInternet, pr_sock, pr_closes, pr_nonblock,
                   pr_connect, pr_select, pr_error, err>>
    /\ UNCHANGED h_vars

\* line 144: hasInternet = <the returned value>; the thread ends.
P_Store ==
    /\ Running /\ pr_pc = "store"
    /\ hasInternet' = pr_result
    /\ pr_pc' = "done"
    /\ UNCHANGED <<m_vars, en_vars, pr_sock, pr_closes, pr_nonblock, pr_connect,
                   pr_select, pr_error, pr_result, pr_cause, err>>
    /\ lateStore' = (m_pc = "returned")
    /\ UNCHANGED prev

Probe ==
    \/ P_Socket \/ P_Pton \/ P_Fcntl \/ P_Connect \/ P_Select \/ P_Getsockopt
    \/ P_Close \/ P_Return \/ P_Store

-----------------------------------------------------------------------------
(* main, lines 137-163 *)

\* Variant of M_StartThread: the thread is started ahead of GetNetworkInfo().
M_StartThread_Early ==
    /\ \/ /\ m_pc = "enumerate" /\ en_pc = "notcalled" /\ pr_pc = "notstarted"
          /\ m_pc' = m_pc
       \/ /\ m_pc = "thread" /\ pr_pc = "notstarted"
          /\ m_pc' = "detach"
    /\ hasInternet' = FALSE
    /\ pr_pc' = "socket"
    /\ UNCHANGED <<it, line, status, out, en_vars, pr_sock, pr_closes, pr_nonblock,
                   pr_connect, pr_select, pr_error, pr_result, pr_cause, err>>
    /\ UNCHANGED h_vars

\* lines 142-145: bool hasInternet = false; the thread is started.
M_StartThread ==
    /\ m_pc = "thread"
    /\ hasInternet' = FALSE
    /\ pr_pc' = "socket"
    /\ m_pc' = "detach"
    /\ UNCHANGED <<it, line, status, out, en_vars, pr_sock, pr_closes, pr_nonblock,
                   pr_connect, pr_select, pr_error, pr_result, pr_cause, err>>
    /\ UNCHANGED h_vars

\* line 146: checkThread.detach().
M_Detach ==
    /\ m_pc = "detach"
    /\ m_pc' = "header"
    /\ UNCHANGED <<it, line, status, out, en_vars, hasInternet, pr_vars, err>>
    /\ UNCHANGED h_vars

\* line 149: the header line.
HeaderLine == <<"Network Interfaces:">>

M_Header ==
    /\ m_pc = "header"
    /\ out' = Append(out, HeaderLine)
    /\ it' = 1
    /\ m_pc' = "blocks"
    /\ UNCHANGED <<line, status, en_vars, hasInternet, pr_vars, err>>
    /\ UNCHANGED h_vars

\* lines 151-154: one record's block.
Block(r) == <<"Interface", r.name, r.ip, r.mac>>

\* Variant of M_Blocks: the loop walks the vector from its end.
M_Blocks_Reverse ==
    /\ m_pc = "blocks"
    /\ IF it > Len(interfaces)
       THEN /\ m_pc' = "sleep"
            /\ UNCHANGED <<it, out>>
       ELSE /\ out' = Append(out, Block(interfaces[Len(interfaces) + 1 - it]))
            /\ it' = it + 1
            /\ m_pc' = m_pc
    /\ UNCHANGED <<line, status, en_vars, hasInternet, pr_vars, err>>
    /\ UNCHANGED h_vars

\* lines 150-155: the printing loop.
M_Blocks ==
    /\ m_pc = "blocks"
    /\ IF it > Len(interfaces)
       THEN /\ m_pc' = "sleep"
            /\ UNCHANGED <<it, out>>
       ELSE /\ out' = Append(out, Block(interfaces[it]))
            /\ it' = it + 1
            /\ m_pc' = m_pc
    /\ UNCHANGED <<line, status, en_vars, hasInternet, pr_vars, err>>
    /\ UNCHANGED h_vars

\* line 158: sleep_for(2 s) is entered ...
M_SleepBegin ==
    /\ m_pc = "sleep"
    /\ m_pc' = "sleeping"
    /\ UNCHANGED <<it, line, status, out, en_vars, hasInternet, pr_vars, err>>
    /\ UNCHANGED h_vars

\* ... the two seconds pass ...
M_SleepExpire ==
    /\ m_pc = "sleeping"
    /\ m_pc' = "woken"
    /\ UNCHANGED <<it, line, status, out, en_vars, hasInternet, pr_vars, err>>
    /\ UNCHANGED h_vars

\* Variant of M_SleepEnd: main waits for the thread to end (a join).
M_SleepEnd_Join ==
    /\ m_pc = "woken" /\ pr_pc = "done"
    /\ m_pc' = "report"
    /\ UNCHANGED <<it, line, status, out, en_vars, hasInternet, pr_vars, err>>
    /\ UNCHANGED h_vars

\* ... and sleep_for returns, only then.
M_SleepEnd ==
    /\ m_pc = "woken"
    /\ m_pc' = "report"
    /\ UNCHANGED <<it, line, status, out, en_vars, hasInternet, pr_vars, err>>
    /\ UNCHANGED h_vars

\* line 160: the word for a value of hasInternet.
Render(b) == IF b THEN "Available" ELSE "Unavailable"

\* Variant of M_Report: the line is rendered from the slot's initial value.
M_Report_Stale ==
    /\ m_pc = "report"
    /\ line' = Render(FALSE)
    /\ out' = Append(out, <<"Internet Access", Render(FALSE)>>)
    /\ m_pc' = "return"
    /\ UNCHANGED <<it, status, en_vars, hasInternet, pr_vars, err>>
    /\ UNCHANGED h_vars

\* lines 159-160: hasInternet is read and the reachability line printed.
M_Report ==
    /\ m_pc = "report"
    /\ line' = Render(hasInternet)
    /\ out' = Append(out, <<"Internet Access", Render(hasInternet)>>)
    /\ m_pc' = "return"
    /\ UNCHANGED <<it, status, en_vars, hasInternet, pr_vars, err>>
    /\ UNCHANGED h_vars

\* Variant of M_Return: the status tells whether the internet was reached.
M_Return_NonZero ==
    /\ m_pc = "return"
    /\ status' = <<IF hasInternet THEN 0 ELSE 1>>
    /\ m_pc' = "returned"
    /\ UNCHANGED <<it, line, out, en_vars, hasInternet, pr_vars, err>>
    /\ UNCHANGED h_vars

\* line 162: return 0; main's frame (interfaces, hasInternet) ends.
M_Return ==
    /\ m_pc = "return"
    /\ status' = <<0>>
    /\ m_pc' = "returned"
    /\ UNCHANGED <<it, line, out, en_vars, hasInternet, pr_vars, err>>
    /\ UNCHANGED h_vars

\* After main returns the process exits and takes the detached thread with it.
ProcessExit ==
    /\ m_pc = "returned"
    /\ m_pc' = "exited"
    /\ UNCHANGED <<it, line, status, out, en_vars, hasInternet, pr_vars, err>>
    /\ UNCHANGED h_vars

Main ==
    \/ M_StartThread \/ M_Detach \/ M_Header \/ M_Blocks \/ M_SleepBegin
    \/ M_SleepExpire \/ M_SleepEnd \/ M_Report \/ M_Return \/ ProcessExit

-----------------------------------------------------------------------------
Next == Enumerate \/ Probe \/ Main

Spec == Init /\ [][Next]_vars

\* The main thread is always scheduled again; nothing is assumed of the probe.
LiveSpec == Spec /\ WF_vars(Enumerate \/ Main)

\* GetNetworkInfo() called twice in a row by a caller that does nothing else.
NextTwice == Enumerate \/ E_Again

SpecTwice == Init /\ [][NextTwice]_vars

-----------------------------------------------------------------------------
(* Properties *)

Range(f) == { f[i] : i \in DOMAIN f }

ProbeStarted == pr_pc # "notstarted"

\* CheckInternetConnection has returned (its caller has the value).
ProbeReturned == pr_pc \in {"store", "done"}

\* GetNetworkInfo is past its loop and has released the list; its locals and
\* the history of the call are still in place.
EnumFinished == en_pc = "ret" /\ listState = "freed"

\* C1 (as claimed): the probe thread is started before the enumerator's first
\* step, the OS interface-list query: once getifaddrs() has been called the
\* probe thread exists.
C1_ProbeStartedBeforeEnumeration ==
    listState # "none" => ProbeStarted

\* C1 (amended): the enumerator runs to completion first: the probe thread is
\* started only after GetNetworkInfo() has returned, so the two never overlap,
\* and it is started before anything is printed.
C1_ProbeStartedAfterEnumeration ==
    /\ ProbeStarted => en_pc = "returned"
    /\ out # <<>> => ProbeStarted

\* The probe is under way while main prints an interface block.
C1_Witness ==
    /\ pr_pc = "select"
    /\ m_pc = "blocks" /\ it = 2 /\ Len(interfaces) = 2

\* C2: main always terminates: it prints the reachability line and returns 0,
\* whatever the probe thread does, also when the probe never takes a step.
C2_MainTerminates ==
    <>(status = <<0>> /\ line # "" /\ m_pc = "exited")

\* main has returned while the probe has not even created its socket.
C2_Witness ==
    /\ status = <<0>> /\ line # ""
    /\ pr_pc = "socket"

\* C3: every record of the result has a non-empty ip and mac and was built from
\* a list entry that has an address and is not loopback; a loopback entry never
\* yields a record and never has its hardware address looked up.
C3_RecordsCompleteAndNotLoopback ==
    /\ \A i \in DOMAIN interfaces : interfaces[i].ip # "" /\ interfaces[i].mac # ""
    /\ en_pc \in {"loop", "ipv4", "socket", "ioctl", "close", "filter", "free", "ret"}
         => /\ Len(origin) = Len(interfaces)
            /\ \A i \in DOMAIN origin :
                 /\ origin[i] \in DOMAIN ifaddr
                 /\ ifaddr[origin[i]].ifa_addr
                 /\ ~ifaddr[origin[i]].loopback
                 /\ ifaddr[origin[i]].ifa_name = interfaces[i].name
            /\ \A k \in DOMAIN ifaddr :
                 ifaddr[k].loopback => k \notin Range(origin) /\ lookup[k] = "none"

\* A list with a loopback IPv4 entry and another entry that yielded a record
\* has been walked to its end.
C3_Witness ==
    /\ EnumFinished
    /\ \E k \in DOMAIN ifaddr : ifaddr[k].loopback /\ ifaddr[k].sa_family = "AF_INET"
    /\ Len(interfaces) >= 1

\* C4 (as claimed): no two records of the result share a name.
C4_NamesUnique ==
    \A i, j \in DOMAIN interfaces :
        i # j => interfaces[i].name # interfaces[j].name

\* The list entries that yield a record: not skipped, IPv4, lookup succeeded.
Yields(k) ==
    /\ ~Skipped(ifaddr[k])
    /\ ifaddr[k].sa_family = "AF_INET"
    /\ lookup[k] = "ok"

\* C4 (amended): names may repeat: for every name, the result holds as many
\* records of that name as the list has non-loopback IPv4 entries of that name
\* whose hardware lookup succeeded; each such entry yields its own record.
C4_OneRecordPerIPv4Entry ==
    EnumFinished =>
        \A n \in { ifaddr[k].ifa_name : k \in DOMAIN ifaddr }
               \cup { interfaces[i].name : i \in DOMAIN interfaces } :
            Cardinality({ i \in DOMAIN interfaces : interfaces[i].name = n })
              = Cardinality({ k \in DOMAIN ifaddr : ifaddr[k].ifa_name = n /\ Yields(k) })

\* Two IPv4 entries of one interface have yielded two records of one name.
C4_Witness ==
    /\ EnumFinished
    /\ Len(interfaces) = 2
    /\ interfaces[1].name = interfaces[2].name
    /\ interfaces[1].ip # interfaces[2].ip

\* C5 (as claimed): a setup failure (socket or address) returns a value
\* different from the one the probe returns for an unreachable target, e.g.
\* for a timed-out wait.
C5_SetupFailureDistinctFromUnreachable ==
    (ProbeReturned /\ pr_cause \in {"socket", "addr"})
        => pr_result # ProbeValue(0, 0)

\* C5 (amended): the result is two-valued: a setup failure returns false, the
\* value a connect failure, a timeout, a failed wait and a pending error
\* return as well; only the message written to the error stream tells a setup
\* failure apart.  true is returned on success alone.
C5_ResultIsTwoValued ==
    ProbeReturned =>
        /\ pr_result \in BOOLEAN
        /\ pr_result = (pr_cause = "success")
        /\ pr_cause \in {"socket", "addr", "connect", "timeout", "waiterr",
                         "pending", "success"}
        /\ pr_cause = "socket" <=> "Error: socket creation failed" \in Range(err)
        /\ pr_cause = "addr" <=> "Error: invalid address" \in Range(err)

\* The probe has returned after failing to construct the target address.
C5_Witness ==
    ProbeReturned /\ pr_cause = "addr" /\ pr_result = FALSE

\* C6: the reachability line is rendered from what hasInternet holds when main
\* reads it after the sleep: "Available" only if the probe has by then ended
\* having stored true; if the probe has not ended the slot holds its initial
\* false and the line is "Unavailable"; once printed the line never changes.
C6_LineFromSlotAtRead ==
    [][ /\ (line = "" /\ line' # "")
            => /\ m_pc = "report"
               /\ line' = Render(hasInternet)
               /\ out' = Append(out, <<"Internet Access", line'>>)
               /\ line' = "Available" => (pr_pc = "done" /\ pr_result)
               /\ pr_pc # "done" => (~hasInternet /\ line' = "Unavailable")
        /\ line # "" => (line' = line /\ out' = out)
      ]_vars

\* The probe stored a reachable result after main had printed "Unavailable".
C6_Witness ==
    /\ line = "Unavailable"
    /\ pr_pc = "done" /\ pr_result /\ hasInternet

\* C7: on every path of CheckInternetConnection on which socket() succeeded
\* the socket is closed exactly once before the function returns; it is never
\* closed twice, and nothing is closed when socket() failed.
C7_SocketClosedExactlyOnce ==
    /\ pr_closes <= 1
    /\ pr_closes = 1 <=> pr_sock = "closed"
    /\ ProbeReturned =>
         IF pr_cause = "socket"
         THEN pr_sock = "none" /\ pr_closes = 0
         ELSE pr_sock = "closed" /\ pr_closes = 1

\* The probe has returned from a timed-out wait.
C7_Witness ==
    ProbeReturned /\ pr_cause = "timeout" /\ pr_closes = 1

\* C8: GetNetworkInfo holds no OS resource when it returns: the datagram
\* socket of an entry is closed before the loop goes on to the next entry,
\* whether the query succeeded or not, and a list obtained from getifaddrs()
\* is freed exactly once before the return.
C8_EnumerateReleasesEverything ==
    /\ dgramOpen \in {0, 1}
    /\ dgramOpen = 1 <=> en_pc \in {"ioctl", "close"}
    /\ listFrees <= 1
    /\ listState = "held" => listFrees = 0
    /\ en_pc \in {"ret", "returned"}
         => /\ listState \in {"failed", "freed"}
            /\ listFrees = (IF listState = "freed" THEN 1 ELSE 0)

\* The hardware query of the first entry failed and the loop is at the second.
C8_Witness ==
    /\ en_pc = "loop" /\ ifa = 2 /\ Len(ifaddr) >= 2
    /\ lookup[1] = "hwfail"
    /\ dgramOpen = 0

\* C9: a failed getifaddrs() is reported and gives the empty vector, and the
\* run goes on to its end: the output is the header line and the reachability
\* line with no block between; the same holds when no entry qualifies.
C9_EmptyResultStillReports ==
    /\ [](listState = "failed"
            => /\ interfaces = <<>>
               /\ err # <<>> /\ err[1] = "Error: getifaddrs() failed"
               /\ listFrees = 0)
    /\ [](status # <<>> => status = <<0>>)
    /\ (en_pc = "ret" /\ interfaces = <<>>)
         ~> (/\ status = <<0>>
             /\ out = <<HeaderLine, <<"Internet Access", line>>>>)
    /\ (listState = "failed") ~> (status = <<0>> /\ Len(out) = 2)

\* main has returned after getifaddrs() failed.
C9_Witness ==
    /\ listState = "failed"
    /\ status = <<0>>
    /\ out = <<HeaderLine, <<"Internet Access", line>>>>

\* C10: a failed hardware lookup (socket() or the query) does not end the
\* enumeration: the loop visits every entry; the failing entry yields no
\* record; and whether any entry yields a record, and which, depends on that
\* entry and on its own lookup alone.
C10_LookupFailureIsLocal ==
    EnumFinished =>
        /\ ifa = Len(ifaddr) + 1
        /\ Len(origin) = Len(interfaces)
        /\ \A i, j \in DOMAIN origin : i < j => origin[i] < origin[j]
        /\ \A k \in DOMAIN ifaddr :
             /\ ~Skipped(ifaddr[k]) => lookup[k] # "none"
             /\ lookup[k] \in {"sockfail", "hwfail"} => k \notin Range(origin)
             /\ k \in Range(origin) <=> Yields(k)
        /\ \A i \in DOMAIN origin :
             /\ interfaces[i].name = ifaddr[origin[i]].ifa_name
             /\ interfaces[i].ip = inet_ntop(ifaddr[origin[i]].sin_addr)
             /\ interfaces[i].mac = FormatMac(KernelHwAddr(ifaddr[origin[i]].ifa_name))

\* The lookup of the first IPv4 entry failed and the second entry yielded the
\* only record.
C10_Witness ==
    /\ EnumFinished
    /\ Len(ifaddr) = 2
    /\ ifaddr[1].sa_family = "AF_INET" /\ ~Skipped(ifaddr[1])
    /\ lookup[1] \in {"sockfail", "hwfail"}
    /\ origin = <<2>>

\* The blocks of the first n records, in the order of the vector.
Blocks(n) == [i \in 1..n |-> Block(interfaces[i])]

\* C11: the output is the header line, then one block per record in the order
\* of the vector GetNetworkInfo returned, then one reachability line, the last
\* thing printed; every block is out before main enters its sleep.
C11_OutputOrder ==
    /\ m_pc \in {"enumerate", "thread", "detach", "header"} => out = <<>>
    /\ m_pc = "blocks"
         => /\ it \in 1..(Len(interfaces) + 1)
            /\ out = <<HeaderLine>> \o Blocks(it - 1)
    /\ m_pc \in {"sleep", "sleeping", "woken", "report"}
         => out = <<HeaderLine>> \o Blocks(Len(interfaces))
    /\ m_pc \in {"return", "returned", "exited"}
         => /\ line \in {"Available", "Unavailable"}
            /\ out = <<HeaderLine>> \o Blocks(Len(interfaces))
                       \o <<<<"Internet Access", line>>>>

\* A complete report of two different records.
C11_Witness ==
    /\ m_pc = "exited"
    /\ Len(interfaces) = 2 /\ Len(out) = 4
    /\ out[2][3] # out[3][3]

\* C12: main returns 0 and nothing else, whatever failed on the way; the
\* process ends by main's return alone.
C12_ExitStatusZero ==
    /\ status \in {<<>>, <<0>>}
    /\ status = <<0>> <=> m_pc \in {"returned", "exited"}

\* main returned after getifaddrs() and the probe's socket() both failed.
C12_Witness ==
    /\ status = <<0>>
    /\ listState = "failed"
    /\ pr_cause = "socket" /\ pr_pc = "done"

\* C13: a second call of GetNetworkInfo that meets the list and the lookup
\* outcomes the first call met returns the same sequence of records (name,
\* IPv4 and MAC of each, in the same order): nothing of the first call is left
\* to act on the second.
C13_SecondCallSameResult ==
    (prev # <<>> /\ en_pc = "ret")
        => /\ ifaddr = prev[1].list
           /\ lookup = prev[1].lookup
           /\ (listState = "failed") = prev[1].failed
           /\ Shown(interfaces) = prev[1].result

\* The second call is over; both calls returned two records and met a failed
\* hardware query.
C13_Witness ==
    /\ prev # <<>> /\ en_pc = "ret"
    /\ Len(prev[1].result) = 2 /\ Len(interfaces) = 2
    /\ \E k \in DOMAIN lookup : lookup[k] = "hwfail"

\* C14: past the setup, the probe returns true exactly when connect() did not
\* fail outright (success or EINPROGRESS), select() reported the socket
\* writable and the pending error is zero; a connect failure, a timeout, a
\* failed wait and a pending error each return false.
C14_ReachableIffWritableAndNoError ==
    /\ pr_pc \in {"select", "getsockopt", "close", "return"}
         => pr_connect \in {"ok", "inprogress"}
    /\ (ProbeReturned /\ pr_cause \notin {"socket", "addr"})
         => /\ pr_result
                 = (pr_connect \in {"ok", "inprogress"} /\ pr_select > 0 /\ pr_error = 0)
            /\ pr_connect = "error" <=> pr_cause = "connect"
            /\ pr_cause = "timeout" <=> (pr_connect # "error" /\ pr_select = 0)
            /\ pr_cause = "waiterr" <=> (pr_connect # "error" /\ pr_select < 0)
            /\ pr_cause = "pending"
                 <=> (pr_connect # "error" /\ pr_select > 0 /\ pr_error # 0)
            /\ pr_cause \in {"connect", "timeout", "waiterr", "pending"} => ~pr_result

\* The probe returned true after a connect() that reported EINPROGRESS.
C14_Witness ==
    ProbeReturned /\ pr_result /\ pr_connect = "inprogress"

\* C15: connect() is called only on a socket that is open and already in
\* non-blocking mode, so it cannot block; select() is the one call that
\* waits, and past it every step of the probe up to its return can be taken
\* at once.
C15_ConnectOnlyWhenNonBlocking ==
    /\ pr_pc = "connect" => (pr_nonblock /\ pr_sock = "open")
    /\ pr_connect # "none" => pr_nonblock
    /\ (Running /\ pr_pc \in {"getsockopt", "close", "return"}) => ENABLED Probe

\* connect() has been called and reported EINPROGRESS; the probe is at select().
C15_Witness ==
    pr_pc = "select" /\ pr_connect = "inprogress" /\ pr_nonblock

\* C16 (as claimed): main's wait ends as soon as the probe's result is there:
\* while main sleeps and the probe has ended, main can go on to print.
C16_WaitEndsWhenProbeDone ==
    (m_pc = "sleeping" /\ pr_pc = "done") => ENABLED M_SleepEnd

\* C17 (as claimed): the probe thread never stores into hasInternet after main
\* has returned.
C17_NoStoreAfterReturn ==
    ~lateStore

\* C18 (as claimed): main's read of hasInternet and the probe's write of it are
\* never both due with nothing to order them.
C18_ReadAndWriteNeverConcurrent ==
    ~(m_pc = "report" /\ pr_pc = "store")
====
